---- MODULE Spec2Model ----
(***************************************************************************)
(* The generator-driven scheduler of src/src/scheduler.py together with    *)
(* the agent coroutine of src/src/agent.py and the Task record of          *)
(* src/src/task.py, as a state machine.                                    *)
(*                                                                         *)
(* One action is one run of a coroutine between two suspension points      *)
(* (an await that really suspends: a model call, a tool call, a wait for   *)
(* a semaphore slot or for a queue item).  The scheduler's lock is never   *)
(* contended (no holder suspends while holding it), and puts on the        *)
(* unbounded queues never suspend, so they do not split an action.         *)
(***************************************************************************)
EXTENDS Integers, Sequences, FiniteSets, Bags, TLC

\* ------------------------------------------------------------------ bounds
MaxCapacity == 4      \* max_concurrent_tasks is drawn from 1..MaxCapacity
MaxRoots == 1         \* tasks submitted by the client through add_task
MaxTasks == 4         \* Task objects constructed in all (roots and subtasks)
MaxToolRounds == 1    \* tool-call batches one task's model asks for
MaxBatch == 2         \* tool calls in one batch

TaskIds == 1..MaxTasks

\* ------------------------------------------------------------ Task values
QUEUED == "queued"
RUNNING == "running"
COMPLETED == "completed"
FAILED == "failed"
PREEMPTED == "preempted"
WAITING_FOR_TOOL == "waiting_for_tool"
WAITING_FOR_SUBTASKS == "waiting_for_subtasks"

TaskStatus ==
  {QUEUED, RUNNING, COMPLETED, FAILED, PREEMPTED, WAITING_FOR_TOOL, WAITING_FOR_SUBTASKS}

PLANNING == "PLANNING"
FINAL_SUMMARY == "FINAL_SUMMARY"
TOOL_CALL == "TOOL_CALL"
REASONING == "REASONING"

TaskType == {PLANNING, FINAL_SUMMARY, TOOL_CALL, REASONING}

\* Values of Task.result.  A value records what it is and the task whose
\* model call or tool batch produced it.
None == [kind |-> "None", by |-> 0]
FinalAnswer(t) == [kind |-> "final_answer", by |-> t]
ToolResults(t, tool_results) ==
  [kind |-> "tool_results", by |-> t, messages |-> tool_results]
NoPlanText == [kind |-> "Planner returned no plan.", by |-> 0]

\* An entry of task_generators: absent, or the generator object (numbered in
\* creation order) with where it stands: running (inside asend, awaiting the
\* model) or suspended at its yield.
NoGenerator == [id |-> 0, st |-> "absent", messages |-> <<>>, calls |-> <<>>]

\* ---------------------------------------------------------- conversations
\* The names of the tools the model can ask for
ToolNames == <<"search", "fetch", "read">>

\* The tool-call batches a model reply can carry, as the names called: one
\* batch of every size, of calls of different tools
Batches == {SubSeq(ToolNames, 1, n) : n \in 1..MaxBatch}

\* response_message.tool_calls of the round-th batch of a task: every call
\* has its own id
ToolCalls(round, names) ==
  [i \in 1..Len(names) |-> [id |-> <<round, i>>, name |-> names[i]]]

\* The messages of a conversation log
UserMessage == [role |-> "user"]
AssistantMessage(calls) == [role |-> "assistant", tool_calls |-> calls]

\* The message _execute_and_resume_task builds for the result of one call
ToolResultMessage(call) ==
  [tool_call_id |-> call.id, role |-> "tool", name |-> call.name,
   content |-> [output_of |-> call.id]]

\* tool_results.append(...) in _execute_and_resume_task, the results put in
\* front instead
PrependResult(tool_results, call) == <<ToolResultMessage(call)>> \o tool_results

\* tool_results.append(...) in _execute_and_resume_task
AppendResult(tool_results, call) == Append(tool_results, ToolResultMessage(call))

\* The message Agent.process_task appends for a call on resume: its content
\* is str() of the whole entry of tool_results
ToolMessage(call, tool_result) ==
  [tool_call_id |-> call.id, role |-> "tool", name |-> call.name,
   content |-> [str |-> tool_result]]

\* messages.append(response_message) left out
ReplyNotLogged(messages, calls) == messages

\* messages.append(response_message) in Agent.process_task
AppendReply(messages, calls) == Append(messages, AssistantMessage(calls))

\* The for loop of Agent.process_task after the yield: one tool message per
\* call of the batch, in the order of the batch
AppendToolMessages(messages, calls, tool_results) ==
  messages \o [i \in 1..Len(calls) |-> ToolMessage(calls[i], tool_results[i])]

\* ------------------------------------------------------------------ plans
\* A plan is the list of its subtask definitions; a name is the position in
\* the list, and the name 0 is a name no subtask of the plan carries.
Def(type, deps) == [task_type |-> type, dependencies |-> deps]

NoPlan == <<Def("no plan", {})>>
BadTypePlan == <<Def(TOOL_CALL, {}), Def("NOT_A_TASK_TYPE", {})>>

GoodPlans ==
  { <<>>,
    <<Def(TOOL_CALL, {})>>,
    <<Def(TOOL_CALL, {0})>>,
    <<Def(TOOL_CALL, {}), Def(TOOL_CALL, {1})>>,
    <<Def(TOOL_CALL, {2}), Def(TOOL_CALL, {1})>>,
    <<Def(TOOL_CALL, {}), Def(FINAL_SUMMARY, {1})>>,
    <<Def(TOOL_CALL, {}), Def(FINAL_SUMMARY, {})>>,
    <<Def(TOOL_CALL, {}), Def(TOOL_CALL, {}), Def(FINAL_SUMMARY, {1, 2})>> }

Plans == GoodPlans \cup {NoPlan, BadTypePlan}

\* decompose_task has not returned for the task
NotPlanned == <<Def("not planned", {})>>

\* ------------------------------------------------------------------ state
VARIABLES
  max_concurrent_tasks,          \* Scheduler.max_concurrent_tasks
  semaphore,                     \* free slots of Scheduler.semaphore
  pending_queue,                 \* Scheduler.pending_queue: tasks
  resumption_queue,              \* Scheduler.resumption_queue: (task, tool_results)
  tasks,                         \* keys of Scheduler.tasks
  next_id,                       \* the next Task to be constructed
  task_type, payload_ok, payload_prompt,
  status, result, error,
  parent, dependencies_names,
  returned_plan,                 \* what decompose_task returned for a PLANNING task
  waiting_for_dependencies, waiting_for_subtasks,
  task_generators,               \* Scheduler.task_generators
  generators_made,               \* generator objects created so far
  tool_rounds,                   \* tool-call batches yielded per task
  drives,                        \* _drive_task coroutines in flight (a bag)
  executors,                     \* _execute_and_resume_task coroutines in flight (a bag)
  is_running, main_pc, main_item,
  dropped,                       \* items taken off a queue that _main_loop let go
  launched,                      \* tasks for which a _drive_task was created
  main_loop_tasks,               \* _main_loop tasks created by start() and still alive
  unlocked_writes,               \* task-graph fields written while _lock was not held
  completed_tasks_count, failed_tasks_count,
  running_tasks_count, pending_tasks_count

vars ==
  << max_concurrent_tasks, semaphore, pending_queue, resumption_queue, tasks,
     next_id, task_type, payload_ok, payload_prompt, status, result, error,
     parent, dependencies_names, returned_plan, waiting_for_dependencies,
     waiting_for_subtasks,
     task_generators, generators_made, tool_rounds, drives, executors,
     is_running, main_pc, main_item, main_loop_tasks, dropped, launched,
     unlocked_writes,
     completed_tasks_count,
     failed_tasks_count, running_tasks_count, pending_tasks_count >>

\* ---------------------------------------------------------------- helpers
RECURSIVE InOrder(_)
\* The elements of a set of task ids in registration order (the order in
\* which a dict of tasks is iterated).
InOrder(S) ==
  IF S = {} THEN <<>>
  ELSE LET m == CHOOSE x \in S : \A y \in S : x <= y
       IN <<m>> \o InOrder(S \ {m})

Range(q) == {q[i] : i \in 1..Len(q)}

AddToBag(B, x) == B (+) SetToBag({x})
RemoveFromBag(B, x) == B (-) SetToBag({x})

\* The part of the state the Task methods and the completion handler write.
Cur ==
  [ status |-> status, result |-> result, error |-> error,
    waiting_for_dependencies |-> waiting_for_dependencies,
    waiting_for_subtasks |-> waiting_for_subtasks,
    pending_queue |-> pending_queue,
    task_generators |-> task_generators,
    completed_tasks_count |-> completed_tasks_count,
    failed_tasks_count |-> failed_tasks_count,
    _lock |-> FALSE, unlocked_writes |-> unlocked_writes ]

Becomes(S) ==
  /\ status' = S.status
  /\ result' = S.result
  /\ error' = S.error
  /\ waiting_for_dependencies' = S.waiting_for_dependencies
  /\ waiting_for_subtasks' = S.waiting_for_subtasks
  /\ pending_queue' = S.pending_queue
  /\ task_generators' = S.task_generators
  /\ completed_tasks_count' = S.completed_tasks_count
  /\ failed_tasks_count' = S.failed_tasks_count
  /\ unlocked_writes' = S.unlocked_writes

\* The caller writes the fields: they are recorded unless it holds _lock
Written(S, fields) ==
  IF S._lock THEN S ELSE [S EXCEPT !.unlocked_writes = @ \cup fields]

\* ------------------------------------------------------------------- Task
\* Task.complete
complete(S, t, r) ==
  [Written(S, {"status", "result"}) EXCEPT !.status[t] = COMPLETED, !.result[t] = r]

\* Task.fail: the error goes to Task.error, Task.result is left as it is
fail(S, t, e) ==
  [Written(S, {"status"}) EXCEPT !.status[t] = FAILED, !.error[t] = e]

\* Task.update_status
update_status(S, t, s) ==
  [Written(S, {"status"}) EXCEPT !.status[t] = s]

\* -------------------------------------------------------------- Scheduler
\* Scheduler._enqueue_task: the ready task is put on the pending queue
_enqueue_task(S, t) ==
  [S EXCEPT !.pending_queue = Append(@, t)]

RECURSIVE EnqueueEach(_, _)
EnqueueEach(S, q) ==
  IF q = <<>> THEN S ELSE EnqueueEach(_enqueue_task(S, Head(q)), Tail(q))

\* The counters and the generator clean-up of _handle_task_completion
CountAndCleanUp(S, t) ==
  [S EXCEPT
     !.completed_tasks_count = IF S.status[t] = COMPLETED THEN @ + 1 ELSE @,
     !.failed_tasks_count = IF S.status[t] = FAILED THEN @ + 1 ELSE @,
     !.task_generators[t] = NoGenerator]

\* Dependency resolution: the finished task leaves every waiting set it is
\* in, and a task whose waiting set becomes empty is enqueued
ResolveDependencies(S, t) ==
  LET dependent_tasks == {u \in tasks : t \in S.waiting_for_dependencies[u]}
      S1 == [S EXCEPT !.waiting_for_dependencies =
                [u \in TaskIds |->
                   IF u \in dependent_tasks
                     THEN S.waiting_for_dependencies[u] \ {t}
                     ELSE S.waiting_for_dependencies[u]]]
      ready == {u \in dependent_tasks : S1.waiting_for_dependencies[u] = {}}
  IN EnqueueEach(S1, InOrder(ready))

\* Parent completion: the finished subtask leaves its parent's waiting set,
\* and the PLANNING parent whose set becomes empty is completed with the
\* result of this subtask
CompleteParent(S, t) ==
  LET p == parent[t] IN
  IF p # 0 /\ t \in S.waiting_for_subtasks[p]
    THEN LET S1 == [S EXCEPT !.waiting_for_subtasks[p] = @ \ {t}] IN
         IF S1.waiting_for_subtasks[p] = {} /\ task_type[p] = PLANNING
           THEN complete(S1, p, S1.result[t])
           ELSE S1
    ELSE S

\* Scheduler._handle_task_completion: its whole body runs under _lock
_handle_task_completion(S, t) ==
  LET locked == [S EXCEPT !._lock = TRUE]
      done == CompleteParent(ResolveDependencies(CountAndCleanUp(locked, t), t), t)
  IN [done EXCEPT !._lock = FALSE]

\* ------------------------------------------------------------------- Init
\* semaphore.acquire() returns only when a slot is free; an acquire that
\* does not wait for one
SlotNotAwaited == TRUE

\* await self.semaphore.acquire(): the caller goes on when a slot is free
SlotFree == semaphore > 0

NoItem == [task |-> 0, tool_result |-> None]

Init ==
  /\ max_concurrent_tasks \in 1..MaxCapacity
  /\ semaphore = max_concurrent_tasks
  /\ pending_queue = <<>>
  /\ resumption_queue = <<>>
  /\ tasks = {}
  /\ next_id = 1
  /\ task_type = [t \in TaskIds |-> REASONING]
  /\ payload_ok = [t \in TaskIds |-> TRUE]
  /\ payload_prompt = [t \in TaskIds |-> {}]
  /\ status = [t \in TaskIds |-> QUEUED]
  /\ result = [t \in TaskIds |-> None]
  /\ error = [t \in TaskIds |-> "None"]
  /\ parent = [t \in TaskIds |-> 0]
  /\ dependencies_names = [t \in TaskIds |-> {}]
  /\ returned_plan = [t \in TaskIds |-> NotPlanned]
  /\ waiting_for_dependencies = [t \in TaskIds |-> {}]
  /\ waiting_for_subtasks = [t \in TaskIds |-> {}]
  /\ task_generators = [t \in TaskIds |-> NoGenerator]
  /\ generators_made = 0
  /\ tool_rounds = [t \in TaskIds |-> 0]
  /\ drives = EmptyBag
  /\ executors = EmptyBag
  /\ is_running = FALSE
  /\ main_pc = "not started"
  /\ main_item = NoItem
  /\ dropped = {}
  /\ launched = {}
  /\ main_loop_tasks = 0
  /\ unlocked_writes = {}
  /\ completed_tasks_count = 0
  /\ failed_tasks_count = 0
  /\ running_tasks_count = 0
  /\ pending_tasks_count = 0

\* ------------------------------------------------- groups of variables
createdTasks == <<tasks, next_id, task_type, payload_ok, parent, dependencies_names>>
taskGraphShape == <<createdTasks, returned_plan>>
mainLoopVars == <<is_running, main_pc, main_item, main_loop_tasks, dropped, launched>>
handledVars ==
  <<status, result, error, waiting_for_dependencies, waiting_for_subtasks,
    pending_queue, task_generators, completed_tasks_count, failed_tasks_count,
    unlocked_writes>>

\* ------------------------------------------------------------- the client
\* Scheduler.add_task, called by a client with a new root task
AddTask(type, ok) ==
  /\ Cardinality({t \in tasks : parent[t] = 0}) < MaxRoots
  /\ next_id <= MaxTasks
  /\ LET t == next_id IN
     /\ tasks' = tasks \cup {t}
     /\ next_id' = next_id + 1
     /\ task_type' = [task_type EXCEPT ![t] = type]
     /\ payload_ok' = [payload_ok EXCEPT ![t] = ok]
     /\ pending_tasks_count' = pending_tasks_count + 1
     /\ pending_queue' = Append(pending_queue, t)
  /\ UNCHANGED <<max_concurrent_tasks, semaphore, resumption_queue, payload_prompt,
                 status, result, error, parent, dependencies_names, returned_plan,
                 waiting_for_dependencies, waiting_for_subtasks, task_generators,
                 generators_made, tool_rounds, drives, executors, mainLoopVars,
                 completed_tasks_count, failed_tasks_count, running_tasks_count,
                 unlocked_writes>>

\* A start() that does not look at is_running
StartsAnyway == TRUE

\* start() returns at once when the scheduler is running
NotRunning == ~is_running

\* Scheduler.start
Start ==
  /\ NotRunning
  /\ is_running' = TRUE
  /\ main_loop_tasks' = main_loop_tasks + 1
  /\ main_pc' = "wait"
  /\ UNCHANGED <<max_concurrent_tasks, semaphore, resumption_queue, payload_prompt,
                 taskGraphShape, handledVars, generators_made, tool_rounds, drives,
                 executors, main_item, dropped, launched, running_tasks_count,
                 pending_tasks_count>>

\* ---------------------------------------------------------- the main loop
NewDrive(item) ==
  [task |-> item.task, tool_result |-> item.tool_result, pc |-> "acquire", gen |-> 0,
   messages |-> <<>>]

\* _main_loop from the acquired slot on: the slot is counted and the drive
\* is created
Launch(item) ==
  /\ semaphore' = semaphore - 1
  /\ running_tasks_count' = running_tasks_count + 1
  /\ unlocked_writes' = unlocked_writes \cup {"running_tasks_count"}
  /\ drives' = AddToBag(drives, NewDrive(item))
  /\ launched' = launched \cup {item.task}
  /\ main_pc' = "wait"
  /\ main_item' = NoItem

\* The item that done.pop() leaves behind: when both get() calls completed,
\* the item of the other one stays in its future and is never read
Unread(from) ==
  IF from = "pending"
    THEN IF resumption_queue = <<>> THEN {}
         ELSE {[from |-> "resumption", task |-> Head(resumption_queue).task,
                by |-> "done.pop"]}
    ELSE IF pending_queue = <<>> THEN {}
         ELSE {[from |-> "pending", task |-> Head(pending_queue), by |-> "done.pop"]}

\* What asyncio.wait leaves of the two queues: each get() that can complete
\* does complete, so a non-empty queue loses its head
AfterGet(q) == IF q = <<>> THEN q ELSE Tail(q)

\* One turn of _main_loop: both get() calls are started, the item of one
\* completed get() is taken (done.pop()), and the loop acquires a slot at
\* once when one is free and waits for one otherwise
MainLoopTakes(from) ==
  /\ is_running
  /\ main_pc = "wait"
  /\ \/ from = "pending" /\ pending_queue # <<>>
     \/ from = "resumption" /\ resumption_queue # <<>>
  /\ LET item == IF from = "pending"
                   THEN [task |-> Head(pending_queue), tool_result |-> None]
                   ELSE Head(resumption_queue)
     IN /\ pending_queue' = AfterGet(pending_queue)
        /\ resumption_queue' = AfterGet(resumption_queue)
        /\ dropped' = dropped \cup Unread(from)
        /\ IF SlotFree
             THEN Launch(item)
             ELSE /\ main_pc' = "acquire"
                  /\ main_item' = item
                  /\ UNCHANGED <<semaphore, running_tasks_count, drives, launched,
                                 unlocked_writes>>
  /\ UNCHANGED <<max_concurrent_tasks, payload_prompt, taskGraphShape, status, result,
                 error, waiting_for_dependencies, waiting_for_subtasks, task_generators,
                 completed_tasks_count, failed_tasks_count, generators_made, tool_rounds,
                 executors, is_running, main_loop_tasks, pending_tasks_count>>

\* _main_loop waiting in semaphore.acquire() gets its slot
MainLoopAcquires ==
  /\ main_pc = "acquire"
  /\ SlotFree
  /\ Launch(main_item)
  /\ UNCHANGED <<max_concurrent_tasks, pending_queue, resumption_queue, payload_prompt,
                 taskGraphShape, status, result, error, waiting_for_dependencies,
                 waiting_for_subtasks, task_generators, completed_tasks_count,
                 failed_tasks_count, generators_made, tool_rounds, executors, is_running,
                 main_loop_tasks, dropped, pending_tasks_count>>

\* The item in the frame of a main loop that is cancelled in
\* semaphore.acquire()
Cancelled ==
  IF main_pc = "acquire"
    THEN {[from |-> IF main_item.tool_result = None THEN "pending" ELSE "resumption",
           task |-> main_item.task, by |-> "cancel"]}
    ELSE {}

\* is_running is cleared and self._main_loop_task is cancelled and awaited
CancelMainLoop ==
  /\ is_running' = FALSE
  /\ main_loop_tasks' = main_loop_tasks - 1
  /\ main_pc' = "not started"
  /\ main_item' = NoItem
  /\ dropped' = dropped \cup Cancelled
  /\ UNCHANGED <<max_concurrent_tasks, semaphore, resumption_queue, payload_prompt,
                 taskGraphShape, handledVars, generators_made, tool_rounds, drives,
                 executors, launched, running_tasks_count, pending_tasks_count>>

\* Scheduler.shutdown on a running scheduler: is_running is cleared and the
\* main loop task is cancelled where it waits (asyncio.wait or
\* semaphore.acquire) and ends through its CancelledError handler; an item
\* the loop held while waiting for a slot is dropped with the loop's frame.
\* Tasks, queues, drivers and slots are not touched
shutdown ==
  /\ is_running
  /\ CancelMainLoop

\* Scheduler.stop: as shutdown, without the early return; with no main loop
\* task alive it changes nothing
stop ==
  /\ main_loop_tasks > 0
  /\ CancelMainLoop

\* ----------------------------------------------------------------- Agent
\* Agent.process_task, payload without messages, prompt and tool_name:
\* task.fail("Invalid payload") and the generator returns
AgentInvalidPayload(S, t) == fail(S, t, "Invalid payload")

\* Agent.process_task, the model call raises: task.fail and the generator returns
AgentModelError(S, t) == fail(S, t, "LLM API call failed")

\* Agent.process_task, a reply without tool calls: task.complete(final_answer)
\* and the generator returns
AgentFinalAnswer(S, t) == complete(S, t, FinalAnswer(t))

\* ------------------------------------------------------------ _drive_task
\* _drive_task after generator.asend() raised StopAsyncIteration
OnStopAsyncIteration(S, t) ==
  _handle_task_completion(complete(S, t, S.result[t]), t)

\* _drive_task after generator.asend() raised another exception
OnException(S, t, e) ==
  _handle_task_completion(fail(S, t, e), t)

\* _drive_task after generator.asend() returned a tool request
OnToolRequest(S, t) ==
  update_status(S, t, WAITING_FOR_TOOL)

\* Finally blocks that give back one slot more for a finished task
OneReleaseTooMany(S, t) ==
  IF S.status[t] \in {COMPLETED, FAILED} THEN 3 ELSE 1

\* The slots the two finally blocks of the driving step give back: the
\* inner one releases for a terminal task only, the outer one always
SlotsReleased(S, t) ==
  IF S.status[t] \in {COMPLETED, FAILED} THEN 2 ELSE 1

InFlight(d) == d \in BagToSet(drives)

Acquires(d) ==
  /\ InFlight(d)
  /\ d.pc = "acquire"
  /\ SlotFree

\* The drive ends: its state is written and its slots are given back
DriveEnds(d, S, acquired) ==
  /\ Becomes(S)
  /\ semaphore' = semaphore - acquired + SlotsReleased(S, d.task)
  /\ drives' = RemoveFromBag(drives, d)

\* _drive_task of a queued PLANNING task up to the planner's model call
DrivePlanning(d) ==
  /\ Acquires(d)
  /\ task_type[d.task] = PLANNING /\ status[d.task] = QUEUED
  /\ semaphore' = semaphore - 1
  /\ drives' = AddToBag(RemoveFromBag(drives, d), [d EXCEPT !.pc = "planning"])
  /\ UNCHANGED <<max_concurrent_tasks, resumption_queue, payload_prompt, taskGraphShape,
                 handledVars, generators_made, tool_rounds, executors, mainLoopVars,
                 running_tasks_count, pending_tasks_count>>

\* The sections of the prompt of a FINAL_SUMMARY task: one for each task in
\* its waiting_for_dependencies at this moment
SummarySections(t) ==
  { [name |-> u, status |-> status[u], result |-> result[u]] :
      u \in waiting_for_dependencies[t] }

\* _drive_task of a queued FINAL_SUMMARY task: the prompt is written and the
\* step ends in the outer finally
DriveFinalSummary(d) ==
  /\ Acquires(d)
  /\ task_type[d.task] = FINAL_SUMMARY /\ status[d.task] = QUEUED
  /\ payload_prompt' = [payload_prompt EXCEPT ![d.task] = SummarySections(d.task)]
  /\ semaphore' = semaphore - 1 + 1
  /\ drives' = RemoveFromBag(drives, d)
  /\ UNCHANGED <<max_concurrent_tasks, resumption_queue, taskGraphShape, handledVars,
                 generators_made, tool_rounds, executors, mainLoopVars,
                 running_tasks_count, pending_tasks_count>>

Standard(t) ==
  /\ ~(task_type[t] = PLANNING /\ status[t] = QUEUED)
  /\ ~(task_type[t] = FINAL_SUMMARY /\ status[t] = QUEUED)

\* _drive_task of a task without a generator: the generator is created and
\* started, and runs to its first model call
DriveStart(d) ==
  LET t == d.task
      g == generators_made + 1
      S1 == update_status(
              [Cur EXCEPT !.task_generators[t] =
                 [id |-> g, st |-> "running", messages |-> <<>>, calls |-> <<>>]],
              t, RUNNING)
  IN /\ Acquires(d)
     /\ Standard(t)
     /\ task_generators[t] = NoGenerator
     /\ generators_made' = g
     /\ IF payload_ok[t]
          THEN /\ Becomes(S1)
               /\ semaphore' = semaphore - 1
               /\ drives' = AddToBag(RemoveFromBag(drives, d),
                                     [d EXCEPT !.pc = "model", !.gen = g,
                                               !.messages = <<UserMessage>>])
          ELSE DriveEnds(d, OnStopAsyncIteration(AgentInvalidPayload(S1, t), t), 1)
     /\ UNCHANGED <<max_concurrent_tasks, resumption_queue, payload_prompt, taskGraphShape,
                    tool_rounds, executors, mainLoopVars, running_tasks_count,
                    pending_tasks_count>>

\* _drive_task of a task that has a generator: asend(tool_result) on it.
\* A running generator refuses the asend (RuntimeError); one suspended at
\* its yield indexes the value sent (TypeError when it is None) and goes on
\* to its next model call
DriveResume(d) ==
  LET t == d.task
      gen == task_generators[t]
      S1 == update_status(Cur, t, RUNNING)
  IN /\ Acquires(d)
     /\ Standard(t)
     /\ gen # NoGenerator
     /\ IF gen.st = "running"
          THEN DriveEnds(d, OnException(S1, t, "asynchronous generator is already running"), 1)
          ELSE IF d.tool_result = None
            THEN DriveEnds(d, OnException(S1, t, "'NoneType' object is not subscriptable"), 1)
            ELSE IF Len(d.tool_result.messages) < Len(gen.calls)
            THEN DriveEnds(d, OnException(S1, t, "list index out of range"), 1)
            ELSE /\ Becomes([S1 EXCEPT !.task_generators[t] =
                              [id |-> gen.id, st |-> "running",
                               messages |-> <<>>, calls |-> <<>>]])
                 /\ semaphore' = semaphore - 1
                 /\ drives' = AddToBag(RemoveFromBag(drives, d),
                      [d EXCEPT !.pc = "model", !.gen = gen.id,
                                !.messages = AppendToolMessages(gen.messages, gen.calls,
                                                                d.tool_result.messages)])
     /\ UNCHANGED <<max_concurrent_tasks, resumption_queue, payload_prompt, taskGraphShape,
                    generators_made, tool_rounds, executors, mainLoopVars,
                    running_tasks_count, pending_tasks_count>>

\* -------------------------------------- _decompose_and_enqueue_subtasks
\* The Task created for the i-th subtask definition of a plan
SubtaskId(i) == next_id + i - 1

SubtaskIds(plan) == {SubtaskId(i) : i \in 1..Len(plan)}

\* Task.dependencies_names of the i-th subtask: the names of the plan
NamedDependencies(plan, i) ==
  {IF n \in 1..Len(plan) THEN SubtaskId(n) ELSE 0 : n \in plan[i].dependencies}

\* A second pass that looks a name up among all the tasks of the scheduler:
\* a name from outside the plan finds the task registered first
ResolvedAmongAllTasks(plan, i) ==
  {IF n \in 1..Len(plan) THEN SubtaskId(n) ELSE 1 : n \in plan[i].dependencies}

\* The second pass: a name is resolved among the subtasks of the same plan,
\* and a name that matches none is dropped
ResolvedDependencies(plan, i) ==
  {SubtaskId(n) : n \in plan[i].dependencies \cap (1..Len(plan))}

\* What decomposition puts on the pending queue: every subtask through
\* add_task, then once more every subtask with no dependency to wait for
EnqueuedAtDecomposition(plan) ==
  [i \in 1..Len(plan) |-> SubtaskId(i)]
    \o InOrder({SubtaskId(i) : i \in {j \in 1..Len(plan) : ResolvedDependencies(plan, j) = {}}})

\* The fields that _decompose_and_enqueue_subtasks and the update_status
\* after it write without _lock: the waiting sets in the second pass and the
\* parent's status (add_task registers each subtask under _lock)
UnlockedAtDecomposition(plan) ==
  {"status"}
    \cup (IF Len(plan) > 0 THEN {"waiting_for_subtasks"} ELSE {})
    \cup (IF \E i \in 1..Len(plan) : ResolvedDependencies(plan, i) # {}
           THEN {"waiting_for_dependencies"} ELSE {})

\* A decomposition that raises on a dependency name it cannot resolve
RaisesOnUnknownName(plan) ==
  \E i \in 1..Len(plan) :
    \/ plan[i].task_type \notin TaskType
    \/ plan[i].dependencies \ (1..Len(plan)) # {}

PlanRaises(plan) == \E i \in 1..Len(plan) : plan[i].task_type \notin TaskType

\* The plans the planner's model can return here: those whose subtasks can
\* still be constructed within MaxTasks
Fits(plan) == plan \in {NoPlan, BadTypePlan} \/ next_id + Len(plan) - 1 <= MaxTasks

\* _drive_task of a PLANNING task from the planner's answer on
PlannerReturns(d, plan) ==
  LET p == d.task
      new == SubtaskIds(plan)
      index(t) == t - next_id + 1
  IN /\ InFlight(d)
     /\ d.pc = "planning"
     /\ Fits(plan)
     /\ drives' = RemoveFromBag(drives, d)
     /\ semaphore' = semaphore + 2
     /\ returned_plan' = [returned_plan EXCEPT ![p] = plan]
     /\ IF plan = NoPlan
          THEN /\ Becomes(_handle_task_completion(complete(Cur, p, NoPlanText), p))
               /\ UNCHANGED <<createdTasks, pending_tasks_count>>
          ELSE IF PlanRaises(plan)
          THEN /\ Becomes(_handle_task_completion(fail(Cur, p, "Decomposition failed"), p))
               /\ UNCHANGED <<createdTasks, pending_tasks_count>>
          ELSE /\ tasks' = tasks \cup new
               /\ next_id' = next_id + Len(plan)
               /\ task_type' = [t \in TaskIds |->
                    IF t \in new THEN plan[index(t)].task_type ELSE task_type[t]]
               /\ parent' = [t \in TaskIds |-> IF t \in new THEN p ELSE parent[t]]
               /\ dependencies_names' = [t \in TaskIds |->
                    IF t \in new THEN NamedDependencies(plan, index(t))
                    ELSE dependencies_names[t]]
               /\ waiting_for_dependencies' = [t \in TaskIds |->
                    IF t \in new THEN ResolvedDependencies(plan, index(t))
                    ELSE waiting_for_dependencies[t]]
               /\ waiting_for_subtasks' = [waiting_for_subtasks EXCEPT ![p] = @ \cup new]
               /\ pending_tasks_count' = pending_tasks_count + Len(plan)
               /\ pending_queue' = pending_queue \o EnqueuedAtDecomposition(plan)
               /\ status' = [status EXCEPT ![p] = WAITING_FOR_SUBTASKS]
               /\ unlocked_writes' = unlocked_writes \cup UnlockedAtDecomposition(plan)
               /\ UNCHANGED <<payload_ok, result, error, task_generators,
                              completed_tasks_count, failed_tasks_count>>
     /\ UNCHANGED <<max_concurrent_tasks, resumption_queue, payload_prompt, generators_made,
                    tool_rounds, executors, mainLoopVars, running_tasks_count>>

\* ------------------------------------------- _drive_task after the model
\* What a model call gives: a reply with the final answer, a reply with a
\* batch of tool calls, or an exception
Reply(kind, names) == [kind |-> kind, names |-> names]

ModelReplies ==
  {Reply("final answer", <<>>), Reply("error", <<>>)}
    \cup {Reply("tool calls", names) : names \in Batches}

\* The replies of a model that answers
Answers == {reply \in ModelReplies : reply.kind # "error"}

\* The generator of the drive gets the reply to its model call and runs to
\* its return or to its yield, and _drive_task runs to its end
ModelReturns(d, reply) ==
  LET t == d.task
      inDict == task_generators[t].id = d.gen
      calls == ToolCalls(tool_rounds[t] + 1, reply.names)
      suspended == [id |-> d.gen, st |-> "suspended",
                    messages |-> AppendReply(d.messages, calls), calls |-> calls]
  IN /\ InFlight(d)
     /\ d.pc = "model"
     /\ reply \in ModelReplies
     /\ CASE reply.kind = "final answer" ->
               /\ DriveEnds(d, OnStopAsyncIteration(AgentFinalAnswer(Cur, t), t), 0)
               /\ UNCHANGED <<tool_rounds, executors>>
          [] reply.kind = "error" ->
               /\ DriveEnds(d, OnStopAsyncIteration(AgentModelError(Cur, t), t), 0)
               /\ UNCHANGED <<tool_rounds, executors>>
          [] reply.kind = "tool calls" ->
               /\ tool_rounds[t] < MaxToolRounds
               /\ tool_rounds' = [tool_rounds EXCEPT ![t] = @ + 1]
               /\ executors' = AddToBag(executors,
                    [task |-> t, calls |-> calls, tool_results |-> <<>>])
               /\ DriveEnds(d,
                    OnToolRequest(
                      IF inDict THEN [Cur EXCEPT !.task_generators[t] = suspended]
                                ELSE Cur, t), 0)
     /\ UNCHANGED <<max_concurrent_tasks, resumption_queue, payload_prompt, taskGraphShape,
                    generators_made, mainLoopVars, running_tasks_count, pending_tasks_count>>

\* ----------------------------------------------- _execute_and_resume_task
\* The call that process_and_call_tool is working on
CurrentCall(e) == e.calls[Len(e.tool_results) + 1]

\* A dispatch that would take a slot of the semaphore before it goes on
DispatchWaitsForSlot(e) == e \in BagToSet(executors) /\ SlotFree

\* The only wait of _execute_and_resume_task is the tool call itself: the
\* coroutine in flight goes on as soon as process_and_call_tool returns
Dispatching(e) == e \in BagToSet(executors)

\* A tool call that is not the last of its batch has returned (a result or a
\* caught error): its message is added and the next call is made
ExecutorCalls(e) ==
  /\ Dispatching(e)
  /\ Len(e.tool_results) + 1 < Len(e.calls)
  /\ executors' = AddToBag(RemoveFromBag(executors, e),
       [e EXCEPT !.tool_results = AppendResult(e.tool_results, CurrentCall(e))])
  /\ UNCHANGED <<max_concurrent_tasks, semaphore, pending_queue, resumption_queue,
                 payload_prompt, taskGraphShape, handledVars, generators_made, tool_rounds,
                 drives, mainLoopVars, running_tasks_count, pending_tasks_count>>

\* The last tool call of the batch has returned (a result or a caught
\* error): the results are stored in task.result and the task is put on the
\* resumption queue
ExecutorFinishes(e) ==
  /\ Dispatching(e)
  /\ Len(e.tool_results) + 1 = Len(e.calls)
  /\ executors' = RemoveFromBag(executors, e)
  /\ LET tool_results == AppendResult(e.tool_results, CurrentCall(e)) IN
     /\ result' = [result EXCEPT ![e.task] = ToolResults(e.task, tool_results)]
     /\ unlocked_writes' = unlocked_writes \cup {"result"}
     /\ resumption_queue' =
          Append(resumption_queue,
                 [task |-> e.task, tool_result |-> ToolResults(e.task, tool_results)])
  /\ UNCHANGED <<max_concurrent_tasks, semaphore, pending_queue, payload_prompt,
                 taskGraphShape, status, error, waiting_for_dependencies,
                 waiting_for_subtasks, task_generators, generators_made, tool_rounds,
                 drives, mainLoopVars, completed_tasks_count, failed_tasks_count,
                 running_tasks_count, pending_tasks_count>>

\* A tool call raises an exception process_and_call_tool does not catch: the
\* coroutine ends there
ExecutorRaises(e) ==
  /\ e \in BagToSet(executors)
  /\ executors' = RemoveFromBag(executors, e)
  /\ UNCHANGED <<max_concurrent_tasks, semaphore, pending_queue, resumption_queue,
                 payload_prompt, taskGraphShape, handledVars, generators_made, tool_rounds,
                 drives, mainLoopVars, running_tasks_count, pending_tasks_count>>

\* ------------------------------------------------------------------- Next
Drives == BagToSet(drives)
Executors == BagToSet(executors)
RootTypes == {PLANNING, REASONING}

Next ==
  \/ \E type \in RootTypes, ok \in BOOLEAN : AddTask(type, ok)
  \/ Start
  \/ \E from \in {"pending", "resumption"} : MainLoopTakes(from)
  \/ MainLoopAcquires
  \/ shutdown
  \/ stop
  \/ \E d \in Drives : DrivePlanning(d)
  \/ \E d \in Drives : DriveFinalSummary(d)
  \/ \E d \in Drives : DriveStart(d)
  \/ \E d \in Drives : DriveResume(d)
  \/ \E d \in Drives, plan \in Plans : PlannerReturns(d, plan)
  \/ \E d \in Drives, reply \in ModelReplies : ModelReturns(d, reply)
  \/ \E e \in Executors : ExecutorCalls(e)
  \/ \E e \in Executors : ExecutorFinishes(e)
  \/ \E e \in Executors : ExecutorRaises(e)

Spec == Init /\ [][Next]_vars

\* --------------------------------------------- an environment that answers
\* A valid plan: tool subtasks without unknown names, plus one FINAL_SUMMARY
\* that comes last and depends on every one of them
IsValidPlan(plan) ==
  /\ Len(plan) >= 2
  /\ plan[Len(plan)].task_type = FINAL_SUMMARY
  /\ plan[Len(plan)].dependencies = 1..(Len(plan) - 1)
  /\ \A i \in 1..(Len(plan) - 1) :
       /\ plan[i].task_type = TOOL_CALL
       /\ plan[i].dependencies \subseteq 1..(i - 1)

ValidPlans == {plan \in GoodPlans : IsValidPlan(plan)}

\* The scheduler with a planner that returns a valid plan, a model that
\* answers every call and tools that return
AnsweringNext ==
  \/ \E type \in RootTypes : AddTask(type, TRUE)
  \/ Start
  \/ \E from \in {"pending", "resumption"} : MainLoopTakes(from)
  \/ MainLoopAcquires
  \/ \E d \in Drives : DrivePlanning(d)
  \/ \E d \in Drives : DriveFinalSummary(d)
  \/ \E d \in Drives : DriveStart(d)
  \/ \E d \in Drives : DriveResume(d)
  \/ \E d \in Drives, plan \in ValidPlans : PlannerReturns(d, plan)
  \/ \E d \in Drives, reply \in Answers : ModelReturns(d, reply)
  \/ \E e \in Executors : ExecutorCalls(e)
  \/ \E e \in Executors : ExecutorFinishes(e)

AnsweringSpec == Init /\ [][AnsweringNext]_vars

\* ================================================================ claims
Terminal == {COMPLETED, FAILED}
Subtasks(p) == {s \in tasks : parent[s] = p}
Siblings(t) == {u \in tasks : parent[u] = parent[t] /\ parent[t] # 0}
NamedDeps(v) == dependencies_names[v] \ {0}
EntersRunning(t) == status[t] # RUNNING /\ status'[t] = RUNNING

RECURSIVE DepsClosure(_)
\* Everything reachable from a set of tasks along the named dependencies
DepsClosure(S) ==
  LET more == S \cup UNION {NamedDeps(u) : u \in S}
  IN IF more = S THEN S ELSE DepsClosure(more)

\* The task is on no dependency cycle and depends on none
InDag(v) == \A u \in DepsClosure(NamedDeps(v)) : u \notin DepsClosure(NamedDeps(u))

\* C1 Dependency happens-before: a subtask enters RUNNING (its generator is
\* created and started) only when every dependency its plan names has
\* reached COMPLETED.
C1_DependencyHappensBefore ==
  [][\A v \in tasks :
       EntersRunning(v) /\ InDag(v)
         => \A u \in NamedDeps(v) : status[u] = COMPLETED]_vars

RunningTasks == {t \in tasks : status[t] = RUNNING}

\* C2 Concurrency bound: in every reachable state the number of tasks whose
\* status is RUNNING is at most max_concurrent_tasks (waiting tasks are not
\* counted), for every interleaving of add_task, admissions, drives and
\* tool dispatches.
C2_ConcurrencyBound == Cardinality(RunningTasks) <= max_concurrent_tasks

\* C2 witness: two tasks are RUNNING at once and the semaphore is exhausted
C2_TwoRunningAtCapacity ==
  /\ Cardinality(RunningTasks) = 2
  /\ semaphore = 0

\* C3 A suspended task holds no slot: a drive that ends leaving its task in
\* WAITING_FOR_TOOL or WAITING_FOR_SUBTASKS has given back both slots
\* acquired for it (the main loop's and _drive_task's own).
C3_SuspendedTaskHoldsNoSlot ==
  [][\A d \in Drives :
       ( /\ d.pc # "acquire"
         /\ drives' = RemoveFromBag(drives, d)
         /\ status'[d.task] \in {WAITING_FOR_TOOL, WAITING_FOR_SUBTASKS} )
       => semaphore' = semaphore + 2]_vars

\* C4 Terminality: a task that is COMPLETED or FAILED keeps its status and
\* its result in every later step.
C4_Terminality ==
  [][\A t \in tasks :
       status[t] \in Terminal => status'[t] = status[t] /\ result'[t] = result[t]]_vars

\* C5 Parent-after-children: whenever a PLANNING task is COMPLETED, every
\* subtask it spawned is terminal (so none is driven afterwards).
C5_ParentAfterChildren ==
  \A p \in tasks :
    task_type[p] = PLANNING /\ status[p] = COMPLETED
      => \A s \in Subtasks(p) : status[s] \in Terminal

\* Nothing is queued, in flight or being executed: the main loop waits on
\* two empty queues and no coroutine of the scheduler is left to run
Quiescent ==
  /\ is_running
  /\ main_pc = "wait"
  /\ pending_queue = <<>>
  /\ resumption_queue = <<>>
  /\ drives = EmptyBag
  /\ executors = EmptyBag

SummaryOf(p) == {s \in Subtasks(p) : task_type[s] = FINAL_SUMMARY}

\* A PLANNING task with a FINAL_SUMMARY subtask is COMPLETED
C6_PlannedWithSummaryCompleted ==
  \E p \in tasks :
    task_type[p] = PLANNING /\ status[p] = COMPLETED /\ SummaryOf(p) # {}

\* C6 (case never reached): no PLANNING task that has a FINAL_SUMMARY subtask
\* is ever COMPLETED, so the result it would carry cannot be observed.
C6_NeverCompletedWithSummary == ~C6_PlannedWithSummaryCompleted

ReachesCompleted(t) == status[t] # COMPLETED /\ status'[t] = COMPLETED
ReachesFailed(t) == status[t] # FAILED /\ status'[t] = FAILED

\* Every dependency the plan names for u has COMPLETED and u waits for none
Resolved(u) ==
  /\ parent[u] # 0
  /\ NamedDeps(u) # {}
  /\ waiting_for_dependencies[u] = {}
  /\ \A t \in NamedDeps(u) : status[t] = COMPLETED

\* C7 Dependency resolution: a task that reaches COMPLETED is removed from
\* the waiting set of every sibling that depends on it, a sibling whose
\* waiting set thereby becomes empty is put on the ready queue, and it is
\* then admitted and driven: when the scheduler has come to rest with a slot
\* free, no sibling whose dependencies are all resolved is still QUEUED.
C7_DependencyResolution ==
  /\ [][\A t \in tasks : ReachesCompleted(t) =>
          \A u \in Siblings(t) : t \in waiting_for_dependencies[u] =>
            /\ t \notin waiting_for_dependencies'[u]
            /\ waiting_for_dependencies'[u] = {} => u \in Range(pending_queue')]_vars
  /\ [](Quiescent /\ semaphore > 0 =>
          \A u \in tasks : Resolved(u) => status[u] # QUEUED)

\* C8 Dependency-failure propagation: when a task ends FAILED, every sibling
\* that depends on it goes from QUEUED to FAILED in that step, and a task
\* with a FAILED dependency never enters RUNNING.
C8_FailurePropagation ==
  [][\A t \in tasks :
       /\ ReachesFailed(t) =>
            \A u \in Siblings(t) :
              t \in NamedDeps(u) /\ status[u] = QUEUED => status'[u] = FAILED
       /\ (\E u \in NamedDeps(t) : status[u] = FAILED) => ~EntersRunning(t)]_vars

\* C9 A PLANNING task in WAITING_FOR_SUBTASKS whose subtasks are all terminal,
\* at least one of them FAILED, ends FAILED and not COMPLETED.
C9_ParentFailsWithSubtask ==
  [][\A p \in tasks :
       ( /\ task_type[p] = PLANNING
         /\ status[p] = WAITING_FOR_SUBTASKS
         /\ status'[p] \in Terminal
         /\ \A s \in Subtasks(p) : status'[s] \in Terminal
         /\ \E s \in Subtasks(p) : status'[s] = FAILED )
       => status'[p] = FAILED]_vars

\* C10 End-to-end progress: with a model that answers every call and a
\* planner that returns a valid plan, a submitted PLANNING root reaches a
\* terminal status, COMPLETED when no subtask fails: once the scheduler has
\* nothing left to run, no step can change the root any more, so by then it
\* is terminal.
C10_EndToEndProgress ==
  Quiescent =>
    \A p \in tasks :
      task_type[p] = PLANNING /\ parent[p] = 0 =>
        /\ status[p] \in Terminal
        /\ (\A s \in Subtasks(p) : status[s] # FAILED) => status[p] = COMPLETED

\* ---------------------------------------------------------------- C11, C12
\* Scheduler.get_stats: running_tasks
running_tasks == max_concurrent_tasks - semaphore

\* No coroutine of the started scheduler can take a step: every drive in
\* flight and the main loop wait for a slot of the exhausted semaphore or
\* for an item of an empty queue, and no tool batch is being executed
AtRest ==
  /\ is_running
  /\ executors = EmptyBag
  /\ \A d \in Drives : d.pc = "acquire" /\ ~SlotFree
  /\ \/ main_pc = "acquire" /\ ~SlotFree
     \/ main_pc = "wait" /\ pending_queue = <<>> /\ resumption_queue = <<>>

LeafWorkload == \A t \in tasks : parent[t] = 0 /\ task_type[t] = REASONING

\* C11 Leaf progress without self-deadlock: with leaf tasks only and a model
\* that always answers, every submitted task reaches COMPLETED; so whenever
\* the started scheduler can take no further step (in particular when it
\* waits on its own semaphore), every submitted task is COMPLETED.
C11_LeafProgress ==
  AtRest /\ LeafWorkload => \A t \in tasks : status[t] = COMPLETED

\* C12 No slot leak: in every quiescent state (both queues empty, no drive
\* and no tool dispatch in flight) the semaphore is back at full capacity:
\* get_stats reports running_tasks = 0.
C12_NoSlotLeak == Quiescent => running_tasks = 0

\* ---------------------------------------------------------------- C13, C14
\* The model call of the task's generator raises in this step
ModelCallRaises(t) ==
  /\ error'[t] = "LLM API call failed"
  /\ \E d \in Drives : d.task = t /\ d.pc = "model" /\ drives' = RemoveFromBag(drives, d)

\* A Task.result that holds the error string e
ErrorText(e) == [kind |-> e, by |-> 0]

\* C13 Model-transport failure: when the model call made for a running leaf
\* task raises, the task ends FAILED (never COMPLETED) and the error string
\* is stored in its result.
C13_ModelFailureFails ==
  [][\A t \in tasks :
       ModelCallRaises(t) /\ status[t] = RUNNING
         => status'[t] = FAILED /\ result'[t] = ErrorText(error'[t])]_vars

\* decompose_task returns no plan for the task in this step
YieldsNoPlan(p) == returned_plan[p] = NotPlanned /\ returned_plan'[p] = NoPlan

\* C14 Planning failure: when decompose_task yields no plan (the planner's
\* model call failed or its reply is not valid JSON), the PLANNING task ends
\* FAILED and no subtask is registered.
C14_PlanningFailureFails ==
  [][\A p \in tasks :
       YieldsNoPlan(p) => status'[p] = FAILED /\ tasks' = tasks]_vars

\* ---------------------------------------------------------------- C15, C16
\* decompose_task returns this plan for the task in this step
Returns(p, plan) == returned_plan[p] = NotPlanned /\ returned_plan'[p] = plan

SummaryCount(plan) ==
  Cardinality({i \in 1..Len(plan) : plan[i].task_type = FINAL_SUMMARY})

\* C15 A plan with zero or more than one FINAL_SUMMARY subtask is refused:
\* the PLANNING task ends FAILED and no subtask is created, registered or
\* enqueued.
C15_SummaryCountChecked ==
  [][\A p \in tasks : \A plan \in GoodPlans :
       Returns(p, plan) /\ SummaryCount(plan) # 1
         => /\ status'[p] = FAILED
            /\ tasks' = tasks
            /\ pending_queue' = pending_queue]_vars

RECURSIVE PlanClosure(_, _)
\* The positions reachable from a set of positions along the dependencies
\* of a plan
PlanClosure(plan, I) ==
  LET more == I \cup UNION {plan[i].dependencies \cap (1..Len(plan)) : i \in I}
  IN IF more = I THEN I ELSE PlanClosure(plan, more)

PlanHasCycle(plan) ==
  \E i \in 1..Len(plan) :
    i \in PlanClosure(plan, plan[i].dependencies \cap (1..Len(plan)))

RECURSIVE WaitClosure(_)
\* The tasks reachable from a set of tasks along waiting_for_dependencies
WaitClosure(T) ==
  LET more == T \cup UNION {waiting_for_dependencies[u] : u \in T}
  IN IF more = T THEN T ELSE WaitClosure(more)

\* C16 DAG safety: a plan whose dependencies contain a cycle makes the
\* PLANNING task fail without creating any subtask, so in every reachable
\* state the waiting_for_dependencies relation is acyclic.
C16_DagSafety ==
  /\ [][\A p \in tasks : \A plan \in GoodPlans :
          Returns(p, plan) /\ PlanHasCycle(plan)
            => status'[p] = FAILED /\ tasks' = tasks]_vars
  /\ [](\A u \in tasks : u \notin WaitClosure(waiting_for_dependencies[u]))

\* -------------------------------------------------------------------- C17
\* A model call is in flight for the task
CallsModel(t) == \E d \in Drives : d.task = t /\ d.pc = "model"

\* C17 Invalid payload: a leaf task whose payload has none of messages,
\* prompt, tool_name ends FAILED when it is admitted, without any model
\* call, and stays FAILED.
C17_InvalidPayloadFails ==
  /\ [][\A t \in tasks :
          ~payload_ok[t] /\ task_type[t] = REASONING =>
            /\ status[t] = QUEUED /\ status'[t] # QUEUED => status'[t] = FAILED
            /\ status[t] = FAILED => status'[t] = FAILED]_vars
  /\ [](\A t \in tasks : ~payload_ok[t] /\ task_type[t] = REASONING => ~CallsModel(t))

\* -------------------------------------------------------------------- C18
\* The tool dispatch e ends in this step
DispatchEnds(e) == e \in Executors /\ executors' = RemoveFromBag(executors, e)

\* C18 Tool-error recovery: however a tool invocation of a yielded batch
\* fails, the dispatcher raises nothing: it produces the tool-result
\* messages and puts the owning task on the resumption queue, the task is
\* not failed by the tool error, and it is resumed: when the scheduler has
\* come to rest no task is left in WAITING_FOR_TOOL.
C18_ToolErrorRecovery ==
  /\ [][\A e \in BagToSet(executors) :
          DispatchEnds(e) =>
            /\ Len(resumption_queue') = Len(resumption_queue) + 1
            /\ resumption_queue'[Len(resumption_queue')].task = e.task
            /\ status'[e.task] # FAILED]_vars
  /\ [](Quiescent /\ semaphore >= 2 =>
          \A t \in tasks : status[t] # WAITING_FOR_TOOL)

\* ---------------------------------------------------------------- C19, C20
\* The drive d resumes the suspended generator of its task in this step with
\* the tool results it was created with
ResumesWithResults(d) ==
  /\ d.pc = "acquire"
  /\ d.tool_result # None
  /\ task_generators[d.task].st = "suspended"
  /\ CopiesIn(d, drives') < CopiesIn(d, drives)

\* The i-th message of the list carries the id and the name of the i-th call
InRequestOrder(tool_results, calls) ==
  /\ Len(tool_results) = Len(calls)
  /\ \A i \in 1..Len(calls) :
       /\ tool_results[i].tool_call_id = calls[i].id
       /\ tool_results[i].name = calls[i].name

\* C19 Tool-result order: the list of tool-result messages handed back to a
\* task's generator on resume has the length of the batch the generator
\* yielded, and its i-th message carries the tool_call_id and the name of
\* the i-th request, for every batch size.
C19_ToolResultOrder ==
  [][\A d \in Drives :
       ResumesWithResults(d)
         => InRequestOrder(d.tool_result.messages, task_generators[d.task].calls)]_vars

\* C19 witness: a generator has been resumed with the results of a batch of
\* two calls and is at its next model call
C19_BatchOfTwoHandedBack ==
  \E d \in Drives :
    /\ d.pc = "model"
    /\ \E i \in 1..Len(d.messages) :
         d.messages[i].role = "tool" /\ d.messages[i].tool_call_id[2] = 2

\* The conversation logs of the generators that exist: of those at a model
\* call and of those suspended at their yield
Logs ==
  {d.messages : d \in {x \in Drives : x.pc = "model"}}
    \cup {task_generators[t].messages :
            t \in {u \in tasks : task_generators[u].st = "suspended"}}

\* The position of the last assistant message before position i (0: none)
LastReply(log, i) ==
  LET before == {j \in 1..(i - 1) : log[j].role = "assistant"}
  IN IF before = {} THEN 0 ELSE CHOOSE j \in before : \A k \in before : k <= j

\* Every tool message refers to a call of an earlier assistant message
RefersBack(log) ==
  \A i \in 1..Len(log) :
    log[i].role = "tool" =>
      \E j \in 1..(i - 1) :
        /\ log[j].role = "assistant"
        /\ \E k \in 1..Len(log[j].tool_calls) :
             log[j].tool_calls[k].id = log[i].tool_call_id

\* Model reply, its tool-result batch in request order, next model reply
Alternates(log) ==
  /\ log[1].role = "user"
  /\ \A i \in 2..Len(log) :
       LET j == LastReply(log, i) IN
       IF log[i].role = "assistant"
         THEN i = 2 \/ (log[i - 1].role = "tool" /\ i - 1 - j = Len(log[j].tool_calls))
         ELSE /\ log[i].role = "tool"
              /\ j > 0
              /\ i - j <= Len(log[j].tool_calls)
              /\ log[i].tool_call_id = log[j].tool_calls[i - j].id
  /\ log[Len(log)].role = "tool" =>
       Len(log) - LastReply(log, Len(log)) =
         Len(log[LastReply(log, Len(log))].tool_calls)

LifecycleTable ==
  { <<QUEUED, RUNNING>>, <<RUNNING, WAITING_FOR_SUBTASKS>>, <<RUNNING, FAILED>>,
    <<RUNNING, WAITING_FOR_TOOL>>, <<WAITING_FOR_TOOL, RUNNING>>,
    <<RUNNING, COMPLETED>>, <<WAITING_FOR_SUBTASKS, COMPLETED>>,
    <<WAITING_FOR_SUBTASKS, FAILED>> }

\* A status change that the table allows: one of its rows, or two of its rows
\* taken one after the other within one uninterrupted segment of a driver
Conformant(from, to) ==
  \/ from = to
  \/ <<from, to>> \in LifecycleTable
  \/ \E mid \in TaskStatus : <<from, mid>> \in LifecycleTable /\ <<mid, to>> \in LifecycleTable

\* C21: every status change of a task is a transition of the lifecycle table,
\* a task enters the system QUEUED, and a PLANNING task is RUNNING for as long
\* as its planner call is in flight
C21_LifecycleConformance ==
  /\ [][ /\ \A t \in tasks : Conformant(status[t], status'[t])
         /\ \A t \in tasks' \ tasks : status'[t] = QUEUED ]_vars
  /\ [](\A d \in Drives : d.pc = "planning" => status[d.task] = RUNNING)

\* ------------------------------------------------------------------- C22
\* Tasks that the main loop took off the pending queue and let go
DroppedFromPending == {i.task : i \in {j \in dropped : j.from = "pending"}}

\* The step launches the first drive of task b, and every put of b on the
\* pending queue so far is still there or is the one being launched
FirstLaunch(b) ==
  /\ b \notin launched
  /\ b \in launched'
  /\ b \notin DroppedFromPending'

\* C22: FIFO admission: when the first drive of a task b is launched, every
\* task that was at the head of the pending queue before b has had a drive
\* launched
C22_FifoAdmission ==
  [][\A b \in tasks : FirstLaunch(b) => DroppedFromPending' \subseteq launched']_vars

\* ------------------------------------------------------------------- C23
\* The step is a call of shutdown() on a running scheduler, up to its return
ShutdownReturns == is_running /\ ~is_running'

\* C23: when shutdown() returns, every task that was not terminal is
\* PREEMPTED, no driver is in flight and every slot is free
C23_Shutdown ==
  [][ShutdownReturns =>
       /\ \A t \in tasks : status[t] \notin Terminal => status'[t] = PREEMPTED
       /\ drives' = EmptyBag
       /\ semaphore' = max_concurrent_tasks]_vars

\* ------------------------------------------------------------------- C24
\* The step is the prompt preparation of an admitted FINAL_SUMMARY task t
PromptPrepared(t) ==
  /\ task_type[t] = FINAL_SUMMARY
  /\ status[t] = QUEUED
  /\ \E d \in Drives : /\ d.task = t
                       /\ d.pc = "acquire"
                       /\ drives' = RemoveFromBag(drives, d)

\* C24: the prompt written for an admitted FINAL_SUMMARY task has one section
\* for each dependency of the task, and each section carries the name and the
\* result of its dependency
C24_SummaryPrompt ==
  [][\A t \in tasks : PromptPrepared(t) =>
       /\ {section.name : section \in payload_prompt'[t]} = NamedDeps(t)
       /\ \A section \in payload_prompt'[t] : section.result = result[section.name]]_vars

\* ------------------------------------------------------------------- C25
\* The subtasks that the step registers
Decomposed == tasks' \ tasks

\* C25: after a decomposition the FINAL_SUMMARY subtask waits, directly or
\* transitively, on every non-summary subtask of the same plan, and the
\* summary is not driven while a non-summary sibling is not terminal
C25_SummaryWaitsOnSiblings ==
  [][ /\ \A s \in Decomposed : \A u \in Decomposed :
           (parent'[s] # 0 /\ task_type'[s] = FINAL_SUMMARY /\ task_type'[u] # FINAL_SUMMARY)
             => u \in WaitClosure(waiting_for_dependencies[s])'
      /\ \A s \in tasks : PromptPrepared(s) =>
           \A u \in Siblings(s) : task_type[u] # FINAL_SUMMARY => status[u] \in Terminal ]_vars

\* ------------------------------------------------------------------- C26
\* u is a sibling of f that does not depend on f, directly or transitively
IndependentSibling(u, f) ==
  /\ u \in Siblings(f) \ {f}
  /\ f \notin DepsClosure(NamedDeps(u))

\* C26: no sibling-kills-sibling: the step in which a subtask ends FAILED
\* changes neither the status nor the result of a sibling that does not depend
\* on it, and that sibling still runs to COMPLETED: when the scheduler has
\* come to rest, every such sibling of a FAILED subtask is COMPLETED
C26_NoSiblingKillsSibling ==
  /\ [][\A f \in tasks : ReachesFailed(f) =>
          \A u \in tasks : IndependentSibling(u, f) =>
            status'[u] = status[u] /\ result'[u] = result[u]]_vars
  /\ [](AtRest => \A f \in tasks : status[f] = FAILED =>
                    \A u \in tasks : IndependentSibling(u, f) => status[u] = COMPLETED)

\* ------------------------------------------------------------------- C27
\* How many times task t is on queue q
TimesOn(q, t) == Cardinality({i \in 1..Len(q) : q[i] = t})

\* C27: a decomposition puts a subtask on the pending queue once when it
\* waits for no dependency and not at all when it waits for one; every item
\* of the pending queue is a QUEUED task that waits for no dependency, and no
\* task is on the queue twice
C27_EnqueueAtDecomposition ==
  /\ [][\A s \in Decomposed :
          TimesOn(pending_queue', s) =
            IF waiting_for_dependencies'[s] = {} THEN 1 ELSE 0]_vars
  /\ [](\A i \in 1..Len(pending_queue) :
          /\ status[pending_queue[i]] = QUEUED
          /\ waiting_for_dependencies[pending_queue[i]] = {}
          /\ TimesOn(pending_queue, pending_queue[i]) = 1)

\* ------------------------------------------------------------------- C28
\* C28: the admission that prepares the prompt of a FINAL_SUMMARY task also
\* drives it like a leaf: a generator is created for the task and the task
\* enters RUNNING
C28_SummaryDrivenLikeLeaf ==
  [][\A t \in tasks : PromptPrepared(t) =>
       /\ task_generators'[t] # NoGenerator
       /\ status'[t] = RUNNING]_vars

\* ------------------------------------------------------------------- C29
\* The step is the driving step of drive d, launched from the resumption
\* queue with the results of a tool batch
AdmittedWithResults(d) ==
  /\ d.pc = "acquire"
  /\ d.tool_result # None
  /\ CopiesIn(d, drives') < CopiesIn(d, drives)

\* C29: an item is put on the resumption queue with a result for every call
\* of its batch, and the task admitted from that queue goes from
\* WAITING_FOR_TOOL to RUNNING while the generator that yielded the batch is
\* resumed with the results of that batch: no generator is created, and the
\* results are those of the task's own calls
C29_Resumption ==
  [][ /\ \A e \in Executors :
           Len(resumption_queue') > Len(resumption_queue) /\ executors' = RemoveFromBag(executors, e)
             => Len(resumption_queue'[Len(resumption_queue')].tool_result.messages) = Len(e.calls)
      /\ \A d \in Drives : AdmittedWithResults(d) =>
           /\ status[d.task] = WAITING_FOR_TOOL
           /\ generators_made' = generators_made
           /\ task_generators[d.task].st = "suspended"
           /\ d.tool_result.by = d.task
           /\ InRequestOrder(d.tool_result.messages, task_generators[d.task].calls)
           /\ status'[d.task] = RUNNING ]_vars

\* ------------------------------------------------------------------- C30
\* C30: a task that is not COMPLETED or FAILED has a null result, and a
\* result that has been written is not written again
C30_ResultWrittenOnce ==
  /\ [](\A t \in tasks : status[t] \notin Terminal => result[t] = None)
  /\ [][\A t \in tasks : result[t] # None => result'[t] = result[t]]_vars

\* ------------------------------------------------------------------- C31
\* C31: every mutation of the task graph (a task's status or result, the
\* waiting sets, the statistics counters) is made while the scheduler's lock
\* is held: no field has been written without it
C31_MutationsUnderLock == unlocked_writes = {}

DispatchSteps(e) == ExecutorCalls(e) \/ ExecutorFinishes(e)

\* C33: tool dispatch runs outside the semaphore: a step of
\* _execute_and_resume_task neither takes nor gives back a slot, and a
\* dispatch in flight can take its next step in every state, also when no
\* slot is free
C33_DispatchOutsideSemaphore ==
  /\ [][\A e \in Executors : DispatchSteps(e) => semaphore' = semaphore]_vars
  /\ [](\A e \in Executors : ENABLED DispatchSteps(e))

\* C33 witness: no slot is free, a dispatch is in flight with a result
\* already in hand, and a batch has been put on the resumption queue
C33_DispatchWithNoSlotFree ==
  /\ semaphore = 0
  /\ resumption_queue # <<>>
  /\ \E e \in Executors : Len(e.tool_results) > 0

\* ------------------------------------------------------------------- C34
\* The _drive_task invocations in flight for task t
DrivesOf(t) == {d \in Drives : d.task = t}

\* The step is the driving step of drive d (it leaves semaphore.acquire())
DrivingStep(d) ==
  /\ d.pc = "acquire"
  /\ CopiesIn(d, drives') < CopiesIn(d, drives)

\* C34: at most one driver per task: at most one _drive_task is in flight
\* for a task, a generator that is awaiting a model call is not sent a value,
\* and a task that has a generator is driven again only with the results of
\* the batch the generator yielded last
C34_OneDriverPerTask ==
  /\ [](\A t \in tasks :
          /\ Cardinality(DrivesOf(t)) <= 1
          /\ \A d \in DrivesOf(t) : CopiesIn(d, drives) = 1)
  /\ [][\A d \in Drives :
          DrivingStep(d) /\ Standard(d.task) /\ task_generators[d.task] # NoGenerator =>
            /\ task_generators[d.task].st # "running"
            /\ d.tool_result # None
            /\ InRequestOrder(d.tool_result.messages, task_generators[d.task].calls)]_vars

\* ------------------------------------------------------------------- C35
\* The items the step takes off the two queues at their heads
TakenOff ==
  (IF pending_queue # <<>> /\ pending_queue' = Tail(pending_queue)
     THEN {[task |-> Head(pending_queue), tool_result |-> None]} ELSE {})
  \cup (IF resumption_queue # <<>> /\ resumption_queue' = Tail(resumption_queue)
          THEN {Head(resumption_queue)} ELSE {})

\* The item is handed on by the step: a drive is created for it, or the loop
\* holds it while it waits for a slot
HandedOn(item) ==
  \/ CopiesIn(NewDrive(item), drives') = CopiesIn(NewDrive(item), drives) + 1
  \/ main_item' = item

\* C35: the main loop loses no work: every item taken off the pending or the
\* resumption queue is handed to a drive (also when both reads complete in
\* the same wait), and the item the loop holds while it waits for a slot is
\* not lost when the loop is cancelled
C35_NoWorkLost ==
  /\ [][\A item \in TakenOff : HandedOn(item)]_vars
  /\ [][main_pc = "acquire" /\ main_pc' # "acquire" =>
          CopiesIn(NewDrive(main_item), drives') = CopiesIn(NewDrive(main_item), drives) + 1]_vars
  /\ [](dropped = {})

WithStatus(s) == {t \in tasks : status[t] = s}

\* C37: statistics are exact: in every quiescent state completed_tasks is the
\* number of known tasks that are COMPLETED and failed_tasks the number that
\* are FAILED
C37_StatisticsExact ==
  Quiescent =>
    /\ completed_tasks_count = Cardinality(WithStatus(COMPLETED))
    /\ failed_tasks_count = Cardinality(WithStatus(FAILED))

\* ------------------------------------------------------------------- C38
\* C38: a PLANNING task is never parked without work: while it is in
\* WAITING_FOR_SUBTASKS its waiting_for_subtasks set is not empty and holds
\* only registered subtasks that are not terminal
C38_NeverParkedWithoutWork ==
  \A p \in tasks :
    task_type[p] = PLANNING /\ status[p] = WAITING_FOR_SUBTASKS =>
      /\ waiting_for_subtasks[p] # {}
      /\ \A s \in waiting_for_subtasks[p] : s \in tasks /\ status[s] \notin Terminal

\* ------------------------------------------------------------------- C39
\* The step admits a task: the main loop takes an item off a queue or
\* launches a drive
Admits ==
  \/ running_tasks_count' # running_tasks_count
  \/ Len(pending_queue') < Len(pending_queue)
  \/ Len(resumption_queue') < Len(resumption_queue)

\* C39: single main loop: at most one main-loop task is alive after any
\* sequence of start, stop and shutdown calls; a main loop is created only by
\* a start() on a scheduler that is not running and has none; on a scheduler
\* that is not running, stop and shutdown change nothing; and from stop or
\* shutdown until the next start no task is admitted
C39_SingleMainLoop ==
  /\ [](main_loop_tasks <= 1)
  /\ [](is_running <=> main_loop_tasks = 1)
  /\ [][main_loop_tasks' > main_loop_tasks => ~is_running /\ main_loop_tasks = 0]_vars
  /\ [][~is_running /\ ~is_running' =>
          UNCHANGED <<main_pc, main_item, main_loop_tasks, dropped>>]_vars
  /\ [][~is_running => ~Admits]_vars

\* C39 witness: the scheduler has been started, stopped while its main loop
\* waited for a slot with an item in hand, and started again; tasks have been
\* added while it was stopped and its one main loop has launched a drive
C39_RestartedAfterStop ==
  /\ is_running
  /\ main_loop_tasks = 1
  /\ \E i \in dropped : i.by = "cancel"
  /\ \E t \in launched : [from |-> "pending", task |-> t, by |-> "cancel"] \notin dropped

\* ------------------------------------------------------------------- C40
\* The plan names a dependency that is no subtask of the plan
HasUnknownName(plan) ==
  \E i \in 1..Len(plan) : plan[i].dependencies \ (1..Len(plan)) # {}

\* C40: unresolvable dependency names are ignored: a plan with such a name is
\* decomposed all the same (every subtask is registered and the parent waits
\* for its subtasks), the name adds nothing to the subtask's
\* waiting_for_dependencies, and the subtask is put on the pending queue as
\* one whose remaining dependencies are its only ones
C40_UnknownNamesIgnored ==
  [][ /\ \A p \in tasks :
           (/\ returned_plan'[p] # returned_plan[p]
            /\ returned_plan'[p] \in GoodPlans
            /\ HasUnknownName(returned_plan'[p]))
             => /\ status'[p] = WAITING_FOR_SUBTASKS
                /\ Cardinality(Decomposed) = Len(returned_plan'[p])
                /\ waiting_for_subtasks'[p] = Decomposed
      /\ \A s \in Decomposed : 0 \in dependencies_names'[s] =>
           /\ waiting_for_dependencies'[s] = dependencies_names'[s] \ {0}
           /\ status'[s] = QUEUED
           /\ waiting_for_dependencies'[s] = {} => s \in Range(pending_queue') ]_vars

\* C40 witness: a subtask whose plan named an unknown dependency has been
\* launched and has COMPLETED
C40_SubtaskWithUnknownNameCompleted ==
  \E s \in tasks :
    /\ 0 \in dependencies_names[s]
    /\ s \in launched
    /\ status[s] = COMPLETED
====
